---------------------------- MODULE Spec2Model ----------------------------
(***************************************************************************)
(* A model of lrv_batch_analyzer.py: the text parsers, the line segmenter  *)
(* of extract_gps_data, find_lrv_files, write_csv and main.                *)
(*                                                                         *)
(* Numbers are scaled integers: latitude/longitude in 1/100 arc-second,    *)
(* altitude/speed/track in 1/1000 of their unit; 0 is Python's 0.0.        *)
(* Python's None is the empty sequence and a present value x is <<x>>.     *)
(*                                                                         *)
(* Two specifications share the definitions of the loop body:              *)
(*   SegSpec  one call of extract_gps_data, one step per line of stdout;   *)
(*   Spec     main, one step per statement group, a whole call of          *)
(*            extract_gps_data inside the per-file step.                   *)
(***************************************************************************)
EXTENDS Integers, Sequences, FiniteSets, TLC

VARIABLES
    \* ---- the frame of one extract_gps_data call (SegSpec) ----
    ex_pc,          \* "idle" | "call" | "loop" | "returned"
    run,            \* what subprocess.run did: [raises, returncode]
    consumed,       \* the lines of result.stdout the for loop has taken so far
    heap,           \* the point dicts created so far (a dict is heap[ref])
    gps_data,       \* the list gps_data: references into heap
    current_point,  \* the reference held by current_point; 0 is the empty dict {}
    handler,        \* the return path taken: "none" | "nonzero" | "timeout" | "exception" | "normal"
    ret,            \* the returned list, as values
    \* ---- main (Spec) ----
    argc,           \* len(sys.argv)
    path_exists,    \* os.path.exists(folder_path)
    tool_available, \* whether `exiftool -ver` runs and exits 0
    pc,             \* "idle" | "start" | "check_path" | "probe" | "discover" | "loop" | "exited"
    lrv_files,      \* the list lrv_files
    idx,            \* position of the for loop over lrv_files (next file to process)
    all_data,       \* the list all_data
    processed_files,\* the counter processed_files
    calls,          \* the calls of extract_gps_data so far, in order:
                    \* [file, run, gps_points] (argument, tool behaviour, result)
    csvfile,        \* the output file: None, or <<[name, header, rows]>>
    opens,          \* how many times the output file was opened for writing
    printed_total,  \* None, or <<n>> once write_csv printed its total
    write_csv_ret,  \* [called, value]: value is what write_csv returned (None = <<>>)
    message,        \* the last diagnostic main printed
    exit_code       \* None while running, <<status>> once the process ended

seg_vars  == <<ex_pc, run, consumed, heap, gps_data, current_point, handler, ret>>
main_vars == <<argc, path_exists, tool_available, pc, lrv_files, idx, all_data, processed_files, calls, csvfile,
               opens, printed_total, write_csv_ret, message, exit_code>>
vars == <<ex_pc, run, consumed, heap, gps_data, current_point, handler, ret,
          argc, path_exists, tool_available,
          pc, lrv_files, idx, all_data, processed_files, calls, csvfile,
          opens, printed_total, write_csv_ret, message, exit_code>>

None == <<>>
Some(x) == <<x>>

-----------------------------------------------------------------------------
(* Bounds *)
MaxLines  == 3      \* lines of stdout in SegSpec
MaxFiles  == 3      \* files in the walked tree
MaxStdout == 2      \* lines of stdout per file in Spec

-----------------------------------------------------------------------------
(* Text values that follow "label :" on a line of the tool's output *)
TimeText(t, frac, z) == [kind |-> "time", a |-> t, b |-> frac, c |-> 0, suffix |-> z]
CoordText(d, m, s, h) == [kind |-> "coord", a |-> d, b |-> m, c |-> s, suffix |-> h]
NumText(n, unit) == [kind |-> "num", a |-> n, b |-> 0, c |-> 0, suffix |-> unit]
JunkText == [kind |-> "junk", a |-> 0, b |-> 0, c |-> 0, suffix |-> ""]
EmptyText == [kind |-> "empty", a |-> 0, b |-> 0, c |-> 0, suffix |-> ""]

\* re.match(r'(\d+)\s*deg\s*(\d+)\'\s*([\d.]+)"\s*([NSEW])') and the arithmetic
\* after it; the result is in 1/100 arc-second (360000 per degree).
parse_coordinate(coord_str) ==
    IF coord_str.kind = "coord" /\ coord_str.suffix \in {"N", "S", "E", "W"}
    THEN LET decimal == coord_str.a * 360000 + coord_str.b * 6000 + coord_str.c
         IN  IF coord_str.suffix \in {"S", "W"} THEN 0 - decimal ELSE decimal
    ELSE 0

\* replace('Z',''), strip, cut at the first '.', strptime; None on any failure.
parse_gps_time(time_str) ==
    IF time_str.kind = "time" THEN Some(time_str.a) ELSE None

\* float(s): the whole string must be a number.
ParseFloat(s) ==
    IF s.kind = "num" /\ s.suffix = "" THEN Some(s.a) ELSE None

\* float(s.split()[0]): the leading whitespace-separated token must be a number.
ParseLeadingFloat(s) ==
    CASE s.kind = "num"   -> Some(s.a)
      [] s.kind = "coord" -> Some(s.a * 1000)
      [] OTHER            -> None

-----------------------------------------------------------------------------
(* Lines of the tool's output *)
DT  == "GPS Date/Time"
LAT == "GPS Latitude"
LON == "GPS Longitude"
ALT == "GPS Altitude"
SPD == "GPS Speed"
TRK == "GPS Track"

\* marks: the marker substrings the line contains; colon: whether the line
\* holds a ':' at all; text: what follows the first ':'.
Line(marks, colon, text) == [marks |-> marks, colon |-> colon, text |-> text]

BlankLine == Line({}, FALSE, EmptyText)

IsBlank(line) == line.marks = {} /\ ~line.colon /\ line.text.kind = "empty"

NewPoint(parsed_time) ==
    [datetime |-> parsed_time, latitude |-> 0, longitude |-> 0,
     altitude |-> 0, speed |-> 0, track |-> 0]

\* Python truth value of current_point: a dict is true when it is not empty.
Truthy(ref) == ref # 0

\* line.split(':', 1)[1] raises IndexError when the line holds no ':'.
SplitRaises(line) == ~line.colon

OrZero(opt) == IF opt = None THEN 0 ELSE opt[1]

SetField(s, field, value) ==
    [s EXCEPT !.heap[s.current_point] = [@ EXCEPT ![field] = value]]

Raise(s) == [s EXCEPT !.raised = TRUE]

\* The 'GPS Date/Time' branch. current_point is assigned only inside
\* `if parsed_time:`; a failed parse leaves it as it was.
OnDateTime(s, line) ==
    LET saved == IF Truthy(s.current_point)
                 THEN [s EXCEPT !.gps_data = Append(@, s.current_point)]
                 ELSE s
    IN  IF SplitRaises(line) THEN Raise(saved)
        ELSE LET parsed_time == parse_gps_time(line.text)
             IN  IF parsed_time # None
                 THEN [saved EXCEPT
                         !.heap = Append(@, NewPoint(parsed_time[1])),
                         !.current_point = Len(saved.heap) + 1]
                 ELSE saved

\* The 'GPS Latitude' / 'GPS Longitude' branches: no try around the split.
OnCoordinate(s, line, field) ==
    IF ~Truthy(s.current_point) THEN s
    ELSE IF SplitRaises(line) THEN Raise(s)
    ELSE SetField(s, field, parse_coordinate(line.text))

\* The 'GPS Altitude' branch: split and float inside try/except.
OnAltitude(s, line) ==
    IF ~Truthy(s.current_point) THEN s
    ELSE IF SplitRaises(line) THEN SetField(s, "altitude", 0)
    ELSE SetField(s, "altitude", OrZero(ParseLeadingFloat(line.text)))

\* The 'GPS Speed' / 'GPS Track' branches: split and float inside try/except.
OnFloat(s, line, field) ==
    IF ~Truthy(s.current_point) THEN s
    ELSE IF SplitRaises(line) THEN SetField(s, field, 0)
    ELSE SetField(s, field, OrZero(ParseFloat(line.text)))

\* Which branch of the if/elif chain a line takes: the first marker, in the
\* order of the chain, that the line contains; "" when it contains none.
Branch(line) ==
    IF DT \in line.marks THEN DT
    ELSE IF LAT \in line.marks THEN LAT
    ELSE IF LON \in line.marks THEN LON
    ELSE IF ALT \in line.marks THEN ALT
    ELSE IF SPD \in line.marks THEN SPD
    ELSE IF TRK \in line.marks THEN TRK
    ELSE ""

\* One iteration of the for loop: the blank test and the if/elif chain.
LoopBody(s, line) ==
    IF IsBlank(line) THEN s
    ELSE LET b == Branch(line)
         IN  IF b = DT THEN OnDateTime(s, line)
             ELSE IF b = LAT THEN OnCoordinate(s, line, "latitude")
             ELSE IF b = LON THEN OnCoordinate(s, line, "longitude")
             ELSE IF b = ALT THEN OnAltitude(s, line)
             ELSE IF b = SPD THEN OnFloat(s, line, "speed")
             ELSE IF b = TRK THEN OnFloat(s, line, "track")
             ELSE s

\* After the loop: the last point is saved.
Flush(s) ==
    IF Truthy(s.current_point)
    THEN [s EXCEPT !.gps_data = Append(@, s.current_point)]
    ELSE s

Deref(h, refs) == [i \in 1..Len(refs) |-> h[refs[i]]]

SegInit == [heap |-> <<>>, gps_data |-> <<>>, current_point |-> 0, raised |-> FALSE]

\* The for loop over a whole list of lines; it stops where an exception leaves it.
RECURSIVE Segment(_, _)
Segment(s, lines) ==
    IF lines = <<>> THEN s
    ELSE LET s2 == LoopBody(s, Head(lines))
         IN  IF s2.raised THEN s2 ELSE Segment(s2, Tail(lines))

-----------------------------------------------------------------------------
(* What subprocess.run can do *)
RunTimeout == [raises |-> "timeout", returncode |-> 0]
RunOther   == [raises |-> "other", returncode |-> 0]
RunExit(rc) == [raises |-> "none", returncode |-> rc]

\* EarlyReturn with the returncode test left out.
EarlyReturnIgnoringExit(r) ==
    CASE r.raises = "timeout" -> "timeout"
      [] r.raises = "other"   -> "exception"
      [] OTHER                -> "none"

\* The early return of extract_gps_data: which path leaves before the loop.
EarlyReturn(r) ==
    CASE r.raises = "timeout" -> "timeout"
      [] r.raises = "other"   -> "exception"
      [] r.returncode # 0     -> "nonzero"
      [] OTHER                -> "none"

\* A whole call: the tool's behaviour r and its stdout as lines.
extract_gps_data(r, stdout) ==
    IF EarlyReturn(r) # "none" THEN <<>>
    ELSE LET s == Segment(SegInit, stdout)
         IN  IF s.raised THEN <<>>
             ELSE LET f == Flush(s) IN Deref(f.heap, f.gps_data)

-----------------------------------------------------------------------------
(* The lines SegSpec feeds the loop *)
T1      == TimeText(1, 0 - 1, "Z")      \* "2025:06:30 02:13:56Z"
T2      == TimeText(2, 9, "Z")          \* "2025:06:30 02:13:57.9Z"
LatN    == CoordText(35, 37, 3550, "N") \* 35 deg 37' 35.50" N
LonW    == CoordText(139, 0, 100, "W")
BadDir  == CoordText(35, 37, 3550, "X") \* wrong direction letter
Metres  == NumText(12500, "m")          \* "12.5 m"
Plain   == NumText(3500, "")            \* "3.5"

Lines ==
    { BlankLine,
      Line({}, TRUE, JunkText),
      Line({DT}, TRUE, T1), Line({DT}, TRUE, T2),
      Line({DT}, TRUE, JunkText), Line({DT}, FALSE, EmptyText),
      Line({LAT}, TRUE, LatN), Line({LAT}, TRUE, BadDir), Line({LAT}, FALSE, EmptyText),
      Line({LON}, TRUE, LonW),
      Line({ALT}, TRUE, Metres), Line({ALT}, TRUE, EmptyText),
      Line({SPD}, TRUE, Plain), Line({SPD}, TRUE, Metres),
      Line({TRK}, TRUE, Plain), Line({TRK}, FALSE, EmptyText),
      Line({ALT, TRK}, TRUE, Plain) }

Frame == [heap |-> heap, gps_data |-> gps_data,
          current_point |-> current_point, raised |-> FALSE]

-----------------------------------------------------------------------------
(* SegSpec: one call of extract_gps_data *)
MainIdle ==
    /\ argc = 1 /\ path_exists = FALSE /\ tool_available = FALSE
    /\ pc = "idle" /\ lrv_files = <<>> /\ idx = 1 /\ all_data = <<>>
    /\ processed_files = 0 /\ calls = <<>> /\ csvfile = None /\ opens = 0
    /\ printed_total = None /\ write_csv_ret = [called |-> FALSE, value |-> None]
    /\ message = "" /\ exit_code = None

SegIdle ==
    /\ ex_pc = "idle" /\ run = RunExit(0) /\ consumed = <<>> /\ heap = <<>>
    /\ gps_data = <<>> /\ current_point = 0 /\ handler = "none" /\ ret = <<>>

SegSpecInit ==
    /\ MainIdle
    /\ ex_pc = "call"
    /\ run \in {RunTimeout, RunOther, RunExit(0), RunExit(1)}
    /\ consumed = <<>> /\ heap = <<>> /\ gps_data = <<>> /\ current_point = 0
    /\ handler = "none" /\ ret = <<>>

\* subprocess.run returned or raised; the returncode test.
RunTool ==
    /\ ex_pc = "call"
    /\ IF EarlyReturn(run) # "none"
       THEN /\ ex_pc' = "returned"
            /\ handler' = EarlyReturn(run)
            /\ ret' = <<>>
       ELSE /\ ex_pc' = "loop"
            /\ UNCHANGED <<handler, ret>>
    /\ UNCHANGED <<run, consumed, heap, gps_data, current_point>>
    /\ UNCHANGED main_vars

\* One iteration of `for line in result.stdout.strip().split('\n')`.
NextLine ==
    /\ ex_pc = "loop"
    /\ Len(consumed) < MaxLines
    /\ \E line \in Lines :
         LET s2 == LoopBody(Frame, line)
         IN  /\ consumed' = Append(consumed, line)
             /\ heap' = s2.heap
             /\ gps_data' = s2.gps_data
             /\ current_point' = s2.current_point
             /\ IF s2.raised
                THEN /\ ex_pc' = "returned"
                     /\ handler' = "exception"
                     /\ ret' = <<>>
                ELSE UNCHANGED <<ex_pc, handler, ret>>
    /\ UNCHANGED run
    /\ UNCHANGED main_vars

\* The lines are exhausted: the last point is saved and gps_data is returned.
Exhausted ==
    /\ ex_pc = "loop"
    /\ LET f == Flush(Frame)
       IN  /\ gps_data' = f.gps_data
           /\ ret' = Deref(f.heap, f.gps_data)
    /\ ex_pc' = "returned"
    /\ handler' = "normal"
    /\ UNCHANGED <<run, consumed, heap, current_point>>
    /\ UNCHANGED main_vars

SegNext == RunTool \/ NextLine \/ Exhausted

SegSpec == SegSpecInit /\ [][SegNext]_vars

-----------------------------------------------------------------------------
(* Files *)
\* The files a tree may hold: file 1 is no LRV file, the others are, with
\* the extension in upper or lower case.
Ext(n) == IF n = 1 THEN ".mp4" ELSE IF n % 2 = 0 THEN ".LRV" ELSE ".lrv"

Entries == { [name |-> n, ext |-> Ext(n)] : n \in 1..MaxFiles }

\* str.lower() of an extension.
Lower(ext) == IF ext = ".LRV" THEN ".lrv" ELSE ext

\* String order of two paths (the names differ).
PathLess(p, q) == p.name < q.name

\* file.lower().endswith('.lrv')
IsLrv(p) == Lower(p.ext) = ".lrv"

\* What os.walk can yield: the files of a tree, each once, in any order.
Walks ==
    { w \in UNION { [1..k -> Entries] : k \in 0..MaxFiles } :
        \A i, j \in DOMAIN w : i # j => w[i] # w[j] }

RECURSIVE Insert(_, _)
Insert(sorted, p) ==
    IF sorted = <<>> THEN <<p>>
    ELSE IF PathLess(p, Head(sorted)) THEN <<p>> \o sorted
    ELSE <<Head(sorted)>> \o Insert(Tail(sorted), p)

RECURSIVE Sorted(_)
Sorted(seq) ==
    IF seq = <<>> THEN <<>>
    ELSE Insert(Sorted(SubSeq(seq, 1, Len(seq) - 1)), seq[Len(seq)])

RECURSIVE Filter(_)
Filter(walk) ==
    IF walk = <<>> THEN <<>>
    ELSE IF IsLrv(Head(walk)) THEN <<Head(walk)>> \o Filter(Tail(walk))
    ELSE Filter(Tail(walk))

find_lrv_files(walk) == Sorted(Filter(walk))

-----------------------------------------------------------------------------
(* write_csv *)
Abs(n) == IF n < 0 THEN 0 - n ELSE n

\* n / d rounded to the nearest integer, a tie to the even one (d > 0).
RoundDiv(n, d) ==
    LET q == Abs(n) \div d
        r == Abs(n) % d
        up == 2 * r > d \/ (2 * r = d /\ q % 2 = 1)
        m == IF up THEN q + 1 ELSE q
    IN  IF n < 0 THEN 0 - m ELSE m

fieldnames == <<"filename", "timestamp", "latitude", "longitude",
                "altitude(m)", "speed(m/s)", "track(deg)">>

\* One writer.writerow: latitude/longitude to 6 decimals (micro-degrees),
\* altitude and track to 1 decimal (tenths), speed to 3 decimals.
Row(filename, point) ==
    [filename  |-> filename,
     timestamp |-> point.datetime,
     latitude  |-> RoundDiv(point.latitude * 25, 9),
     longitude |-> RoundDiv(point.longitude * 25, 9),
     altitude  |-> RoundDiv(point.altitude, 100),
     speed     |-> point.speed,
     track     |-> RoundDiv(point.track, 100)]

FileRows(file_data) ==
    [i \in 1..Len(file_data.gps_points) |-> Row(file_data.filename, file_data.gps_points[i])]

\* The outer loop of write_csv run over the files last to first.
RECURSIVE CsvRowsLastFirst(_)
CsvRowsLastFirst(data) ==
    IF data = <<>> THEN <<>>
    ELSE CsvRowsLastFirst(Tail(data)) \o FileRows(Head(data))

\* The two nested for loops of write_csv: the rows, in the order written.
RECURSIVE CsvRows(_)
CsvRows(data) ==
    IF data = <<>> THEN <<>>
    ELSE FileRows(Head(data)) \o CsvRows(Tail(data))

\* write_csv has no return statement.
WriteCsvReturn(total_points) == None

-----------------------------------------------------------------------------
(* main *)
\* The lines the tool prints for a file in Spec.
MainLines ==
    { Line({DT}, TRUE, T1), Line({DT}, TRUE, T2),
      Line({DT}, TRUE, JunkText), Line({LAT}, TRUE, LatN) }

Stdouts == UNION { [1..k -> MainLines] : k \in 0..MaxStdout }

\* A tool run and its stdout: a failing run may have printed lines too.
ToolRuns ==
    { <<RunTimeout, <<>>>>, <<RunOther, <<>>>>,
      <<RunExit(1), <<>>>>, <<RunExit(1), <<Line({DT}, TRUE, T1)>>>> }
    \cup { <<RunExit(0), out>> : out \in Stdouts }

Exit(status, text) ==
    /\ pc' = "exited"
    /\ exit_code' = Some(status)
    /\ message' = text

\* sys.argv[2] if len(sys.argv) > 2 else 'lrv_gps_data.csv'
output_file == IF argc > 2 THEN "argv[2]" ELSE "lrv_gps_data.csv"

Init ==
    /\ SegIdle
    /\ argc \in 1..3 /\ path_exists \in BOOLEAN /\ tool_available \in BOOLEAN
    /\ pc = "start" /\ lrv_files = <<>> /\ idx = 1 /\ all_data = <<>>
    /\ processed_files = 0 /\ calls = <<>> /\ csvfile = None /\ opens = 0
    /\ printed_total = None /\ write_csv_ret = [called |-> FALSE, value |-> None]
    /\ message = "" /\ exit_code = None

\* len(sys.argv) < 2
CheckArgs ==
    /\ pc = "start"
    /\ IF argc < 2
       THEN Exit(1, "usage")
       ELSE pc' = "check_path" /\ UNCHANGED <<exit_code, message>>
    /\ UNCHANGED <<lrv_files, idx, all_data, processed_files, calls, csvfile,
                   opens, printed_total, write_csv_ret>>
    /\ UNCHANGED <<argc, path_exists, tool_available>>
    /\ UNCHANGED seg_vars

\* os.path.exists(folder_path)
CheckPath ==
    /\ pc = "check_path"
    /\ IF ~path_exists
       THEN Exit(1, "no_folder")
       ELSE pc' = "probe" /\ UNCHANGED <<exit_code, message>>
    /\ UNCHANGED <<lrv_files, idx, all_data, processed_files, calls, csvfile,
                   opens, printed_total, write_csv_ret>>
    /\ UNCHANGED <<argc, path_exists, tool_available>>
    /\ UNCHANGED seg_vars

\* subprocess.run(['exiftool', '-ver'], check=True)
ProbeTool ==
    /\ pc = "probe"
    /\ IF ~tool_available
       THEN Exit(1, "no_exiftool")
       ELSE pc' = "discover" /\ UNCHANGED <<exit_code, message>>
    /\ UNCHANGED <<lrv_files, idx, all_data, processed_files, calls, csvfile,
                   opens, printed_total, write_csv_ret>>
    /\ UNCHANGED <<argc, path_exists, tool_available>>
    /\ UNCHANGED seg_vars

\* The empty test left out.
NoFilesNever(files) == FALSE

\* `if not lrv_files:` after the discovery.
NoFiles(files) == files = <<>>

\* Single file or folder, then the empty test.
Discover ==
    /\ pc = "discover"
    /\ \E files \in { <<p>> : p \in { e \in Entries : IsLrv(e) } }
                    \cup { find_lrv_files(w) : w \in Walks } :
         /\ lrv_files' = files
         /\ IF NoFiles(files)
            THEN Exit(1, "no_lrv_files")
            ELSE pc' = "loop" /\ UNCHANGED <<exit_code, message>>
    /\ UNCHANGED <<idx, all_data, processed_files, calls, csvfile,
                   opens, printed_total, write_csv_ret>>
    /\ UNCHANGED <<argc, path_exists, tool_available>>
    /\ UNCHANGED seg_vars

\* The `if gps_points:` test left out.
KeepAlways(gps_points) == TRUE

\* `if gps_points:` a list is true when it is not empty.
Keep(gps_points) == gps_points # <<>>

\* One iteration of `for lrv_file in lrv_files`.
ProcessFile ==
    /\ pc = "loop"
    /\ idx <= Len(lrv_files)
    /\ \E tr \in ToolRuns :
         LET lrv_file == lrv_files[idx]
             gps_points == extract_gps_data(tr[1], tr[2])
         IN  /\ calls' = Append(calls, [file |-> lrv_file, run |-> tr[1],
                                         gps_points |-> gps_points])
             /\ IF Keep(gps_points)
                THEN /\ all_data' = Append(all_data,
                            [filename |-> lrv_file, gps_points |-> gps_points])
                     /\ processed_files' = processed_files + 1
                ELSE UNCHANGED <<all_data, processed_files>>
    /\ idx' = idx + 1
    /\ UNCHANGED <<pc, lrv_files, csvfile, opens, printed_total, write_csv_ret,
                   message, exit_code>>
    /\ UNCHANGED <<argc, path_exists, tool_available>>
    /\ UNCHANGED seg_vars

\* After the loop: write_csv and the summary, or the message; main returns.
Finish ==
    /\ pc = "loop"
    /\ idx > Len(lrv_files)
    /\ IF all_data # <<>>
       THEN LET rows == CsvRows(all_data)
            IN  /\ opens' = opens + 1
                /\ csvfile' = Some([name |-> output_file, header |-> fieldnames,
                                     rows |-> rows])
                /\ printed_total' = Some(Len(rows))
                /\ write_csv_ret' = [called |-> TRUE, value |-> WriteCsvReturn(Len(rows))]
                /\ Exit(0, "done")
       ELSE /\ Exit(0, "no_gps_data")
            /\ UNCHANGED <<csvfile, opens, printed_total, write_csv_ret>>
    /\ UNCHANGED <<lrv_files, idx, all_data, processed_files, calls>>
    /\ UNCHANGED <<argc, path_exists, tool_available>>
    /\ UNCHANGED seg_vars

Next == CheckArgs \/ CheckPath \/ ProbeTool \/ Discover \/ ProcessFile \/ Finish

Spec == Init /\ [][Next]_vars

-----------------------------------------------------------------------------
(* Vocabulary of the properties *)

\* A 'GPS Date/Time' line whose time value parses.
ValidDT(line) ==
    Branch(line) = DT /\ line.colon /\ parse_gps_time(line.text) # None

\* A 'GPS Date/Time' line whose time value does not parse.
UnparsableDT(line) ==
    Branch(line) = DT /\ line.colon /\ parse_gps_time(line.text) = None

\* A Latitude / Longitude / Altitude / Speed / Track line.
FieldLine(line) == Branch(line) \in {LAT, LON, ALT, SPD, TRK}

FieldOf(b) ==
    CASE b = LAT -> "latitude" [] b = LON -> "longitude" [] b = ALT -> "altitude"
      [] b = SPD -> "speed" [] OTHER -> "track"

PointFields == {"datetime", "latitude", "longitude", "altitude", "speed", "track"}

\* Index of the last 'GPS Date/Time' line of a sequence, 0 when it has none.
LastDT(seq) ==
    IF \E i \in DOMAIN seq : Branch(seq[i]) = DT
    THEN CHOOSE i \in DOMAIN seq :
            Branch(seq[i]) = DT /\ \A j \in DOMAIN seq : j > i => Branch(seq[j]) # DT
    ELSE 0

\* The last 'GPS Date/Time' line did not parse: the lines after it are to be dropped.
Dropping(seq) == LastDT(seq) # 0 /\ UnparsableDT(seq[LastDT(seq)])

\* A point is under construction: the last 'GPS Date/Time' line parsed.
UnderConstruction(seq) == LastDT(seq) # 0 /\ ValidDT(seq[LastDT(seq)])

\* The timestamps of the 'GPS Date/Time' lines that parse, in input order.
RECURSIVE ValidTimes(_)
ValidTimes(seq) ==
    IF seq = <<>> THEN <<>>
    ELSE IF ValidDT(Head(seq))
         THEN <<parse_gps_time(Head(seq).text)[1]>> \o ValidTimes(Tail(seq))
         ELSE ValidTimes(Tail(seq))

\* The loop took one more line in this step.
TookLine == Len(consumed') = Len(consumed) + 1

Occurrences(x, seq) == Cardinality({ i \in DOMAIN seq : seq[i] = x })

\* The tool failed for this file: it exited non-zero, timed out or could not be run.
Failed(r) == r.raises # "none" \/ r.returncode # 0

RECURSIVE TotalPoints(_)
TotalPoints(data) ==
    IF data = <<>> THEN 0
    ELSE Len(Head(data).gps_points) + TotalPoints(Tail(data))

\* The calls that returned at least one point, as all_data entries, in call order.
RECURSIVE Yielding(_)
Yielding(log) ==
    IF log = <<>> THEN <<>>
    ELSE IF Head(log).gps_points # <<>>
         THEN <<[filename |-> Head(log).file, gps_points |-> Head(log).gps_points]>>
              \o Yielding(Tail(log))
         ELSE Yielding(Tail(log))

\* The file holds the header and then one row per point, files in aggregate
\* order, points in each file's order, each row with its file's name.
RowsAsClaimed ==
    /\ csvfile # None
    /\ csvfile[1].header = fieldnames
    /\ Len(csvfile[1].rows) = TotalPoints(all_data)
    /\ \A f \in DOMAIN all_data : \A k \in DOMAIN all_data[f].gps_points :
          csvfile[1].rows[TotalPoints(SubSeq(all_data, 1, f - 1)) + k]
             = Row(all_data[f].filename, all_data[f].gps_points[k])

-----------------------------------------------------------------------------
(* Properties of the segmenter, under SegSpec *)

\* C1: a 'GPS Date/Time' line with an unparsable time value leaves no current
\* point, and every Latitude/Longitude/Altitude/Speed/Track line after it, up to
\* the next 'GPS Date/Time' line that parses, changes no field of any point,
\* the points already appended included.
C1_Claim ==
    [][ TookLine =>
          LET line == consumed'[Len(consumed')]
          IN  /\ UnparsableDT(line) => ~Truthy(current_point')
              /\ (FieldLine(line) /\ Dropping(consumed))
                    => (heap' = heap /\ gps_data' = gps_data) ]_vars

\* C2: the returned list holds exactly one point per 'GPS Date/Time' line that
\* parses, in input order, each with the timestamp of its own line.
C2_Claim ==
    (ex_pc = "returned" /\ handler = "normal")
        => [i \in 1..Len(ret) |-> ret[i].datetime] = ValidTimes(consumed)

\* C3: at the end of the input a point under construction is appended exactly
\* once, as the last element; with no point under construction nothing is appended.
C3_Claim ==
    [][ (ex_pc = "loop" /\ ex_pc' = "returned" /\ handler' = "normal") =>
          IF UnderConstruction(consumed)
          THEN /\ gps_data' = Append(gps_data, current_point)
               /\ Occurrences(current_point, gps_data') = 1
          ELSE gps_data' = gps_data ]_vars

\* C8: when the tool exits 0, malformed text on a marker line never aborts the
\* file: the call returns through the normal path, with the points of the
\* well-formed lines.
C8_Claim ==
    (ex_pc = "returned" /\ ~Failed(run))
        => /\ handler = "normal"
           /\ ValidTimes(consumed) # <<>> => ret # <<>>

\* C10: a point started by a valid 'GPS Date/Time' line has all numeric fields
\* 0.0; a later field line sets only its own field of the current point and
\* leaves the other fields, the timestamp and the points already appended as
\* they were; with no current point a field line changes nothing.
C10_Claim ==
    [][ TookLine =>
          LET line == consumed'[Len(consumed')]
              field == FieldOf(Branch(line))
          IN  /\ ValidDT(line) =>
                    /\ Truthy(current_point')
                    /\ heap'[current_point'] = NewPoint(parse_gps_time(line.text)[1])
              /\ (FieldLine(line) /\ Truthy(current_point)) =>
                    /\ current_point' = current_point
                    /\ \A g \in PointFields \ {field} :
                          heap'[current_point][g] = heap[current_point][g]
                    /\ Deref(heap', gps_data') = Deref(heap, gps_data)
              /\ (FieldLine(line) /\ ~Truthy(current_point)) =>
                    (heap' = heap /\ gps_data' = gps_data
                       /\ current_point' = current_point) ]_vars

-----------------------------------------------------------------------------
(* Properties of main, under Spec *)

\* C4: files were discovered but none yielded a point: the process ends with a
\* non-zero exit status and no output file is written.
C4_Claim ==
    (pc = "exited" /\ lrv_files # <<>> /\ all_data = <<>>)
        => (exit_code # Some(0) /\ csvfile = None)

\* C5: a failed tool run makes extract_gps_data return the empty list, and
\* whatever the outcomes, the extractor is invoked on every discovered file
\* exactly once, in the sorted discovery order.
C5_Thm ==
    /\ \A i \in DOMAIN calls : Failed(calls[i].run) => calls[i].gps_points = <<>>
    /\ Len(calls) <= Len(lrv_files)
    /\ \A i \in DOMAIN calls : calls[i].file = lrv_files[i]
    /\ \A i, j \in DOMAIN lrv_files : i < j => PathLess(lrv_files[i], lrv_files[j])
    /\ (pc = "exited" /\ lrv_files # <<>>) => Len(calls) = Len(lrv_files)

C5_Witness ==
    /\ pc = "exited" /\ Len(calls) = 2
    /\ Failed(calls[1].run)
    /\ calls[2].gps_points # <<>>

\* C6: all_data holds exactly the files that yielded at least one point, in
\* discovery order, each with its own points; processed_files is its length
\* and at most the number of discovered files; and a run with a non-empty
\* all_data ends with one data row per point in the file and exit status 0.
C6_Thm ==
    /\ all_data = Yielding(calls)
    /\ processed_files = Len(all_data)
    /\ processed_files <= Len(lrv_files)
    /\ (pc = "exited" /\ all_data # <<>>) =>
          /\ csvfile # None
          /\ Len(csvfile[1].rows) = TotalPoints(all_data)
          /\ exit_code = Some(0)

C6_Witness ==
    /\ pc = "exited" /\ Len(lrv_files) = 2 /\ processed_files = 1
    /\ Failed(calls[2].run)
    /\ csvfile # None /\ Len(csvfile[1].rows) = 2

\* C7: the output file is opened and written at most once, and only when the
\* extractor has finished on every discovered file; a run that ends on a
\* missing argument, a missing path, an unavailable tool or no discovered file
\* writes no output file and ends with a non-zero exit status.
C7_Thm ==
    /\ opens <= 1
    /\ (opens > 0 \/ csvfile # None) =>
          (opens = 1 /\ idx > Len(lrv_files) /\ Len(calls) = Len(lrv_files))
    /\ (pc = "exited"
          /\ (argc < 2 \/ ~path_exists \/ ~tool_available \/ lrv_files = <<>>)) =>
          (csvfile = None /\ opens = 0 /\ exit_code # None /\ exit_code # Some(0))

C7_Witness ==
    pc = "exited" /\ opens = 1 /\ csvfile # None /\ Len(calls) = 2

\* C9 as claimed: write_csv writes the header and one row per point in
\* aggregate order and returns the number of rows written, the sum of the
\* point counts.
C9_Claim ==
    write_csv_ret.called =>
        (RowsAsClaimed /\ write_csv_ret.value = Some(TotalPoints(all_data)))

\* C9 as amended: write_csv writes the header and one row per point in
\* aggregate order and prints the number of rows written, the sum of the point
\* counts; it returns nothing.
C9_Thm ==
    write_csv_ret.called =>
        /\ RowsAsClaimed
        /\ printed_total = Some(TotalPoints(all_data))
        /\ write_csv_ret.value = None

C9_Witness ==
    /\ write_csv_ret.called
    /\ Len(all_data) = 2
    /\ Len(all_data[1].gps_points) = 2

=============================================================================
